---- MODULE Spec2Model ----
(***************************************************************************)
(* A model of loader.go, the benchmark-log loader: load() parses the       *)
(* "Benchmark..." lines of one file into the store loader.data, cook()     *)
(* renders every workload, cookWorkload() orders a workload's days and     *)
(* cookDay() averages the runs of one day that lie within one standard     *)
(* deviation of the mean.                                                  *)
(*                                                                         *)
(* Machine arithmetic is modelled as the machine does it.  An int64 is a   *)
(* sequence of four 16-bit limbs, least significant first, added modulo    *)
(* 2^64 and divided with truncation toward zero.  A float64 is a binary    *)
(* floating-point number with round-to-nearest-even, gradual underflow,    *)
(* overflow to infinity and NaN; the format is IEEE 754's with the         *)
(* precision and the exponent range as parameters (binary64 has PREC = 53, *)
(* FRAC = 1074, EXPS = 2045), instantiated here with a small precision and *)
(* range so that the values can be enumerated.                             *)
(***************************************************************************)
EXTENDS Integers, Sequences, FiniteSets, TLC

(***************************************************************************)
(* float64.  A finite value is k * 2^(-FRAC) for an integer k: 1.0 is      *)
(* 2^FRAC and the smallest positive (subnormal) value is k = 1.  k is      *)
(* representable when |k| = m * 2^e with m < 2^PREC and 0 <= e <= EXPS.    *)
(***************************************************************************)
\* Bits of precision of the significand (binary64: 53).
PREC == 3

\* Fraction bits below 1.0: the smallest subnormal is 2^(-FRAC) (binary64: 1074).
FRAC == 4

\* Exponent steps between the subnormal binade and the largest binade (binary64: 2045).
EXPS == 8

MaxFinite == (2^PREC - 1) * 2^EXPS

Fin(k) == [cls |-> "fin", k |-> k]

PosInf == [cls |-> "inf", k |-> 1]

NegInf == [cls |-> "inf", k |-> -1]

NaN == [cls |-> "nan", k |-> 0]

Abs(x) == IF x < 0 THEN -x ELSE x

Sgn(x) == IF x < 0 THEN -1 ELSE IF x > 0 THEN 1 ELSE 0

Inf(s) == IF s < 0 THEN NegInf ELSE PosInf

RECURSIVE ExpOf(_)
\* The binade of a non-negative magnitude q: the least e with q < 2^(PREC + e).
ExpOf(q) == IF q < 2^PREC THEN 0 ELSE 1 + ExpOf(q \div 2)

\* num/den >= 0 rounded to the nearest representable magnitude, ties to the
\* even significand; the result may exceed MaxFinite (the caller overflows).
RoundNonneg(num, den) ==
    LET q == num \div den
        step == 2^ExpOf(q)
        lower == (q \div step) * step
        upper == lower + step
        mid == (lower + upper) * den
    IN  IF 2 * num < mid THEN lower
        ELSE IF 2 * num > mid THEN upper
        ELSE IF (lower \div step) % 2 = 0 THEN lower ELSE upper

\* The float64 nearest to the rational num/den (den > 0).
RoundRat(num, den) ==
    LET r == RoundNonneg(Abs(num), den)
    IN  IF r > MaxFinite THEN Inf(num) ELSE Fin(Sgn(num) * r)

IsRepresentable(k) == RoundRat(k, 1) = Fin(k)

\* float64(n) for an int n (loader.go:108 float64(len(runs))).
FromInt(n) == RoundRat(n * 2^FRAC, 1)

FAdd(a, b) ==
    IF a.cls = "nan" \/ b.cls = "nan" THEN NaN
    ELSE IF a.cls = "inf" /\ b.cls = "inf" THEN (IF a.k = b.k THEN a ELSE NaN)
    ELSE IF a.cls = "inf" THEN a
    ELSE IF b.cls = "inf" THEN b
    ELSE RoundRat(a.k + b.k, 1)

FNeg(a) == IF a.cls = "nan" THEN NaN ELSE [a EXCEPT !.k = -a.k]

FSub(a, b) == FAdd(a, FNeg(b))

FMul(a, b) ==
    IF a.cls = "nan" \/ b.cls = "nan" THEN NaN
    ELSE IF a.cls = "inf" \/ b.cls = "inf"
         THEN (IF a.k = 0 \/ b.k = 0 THEN NaN ELSE Inf(Sgn(a.k) * Sgn(b.k)))
    ELSE RoundRat(a.k * b.k, 2^FRAC)

FDiv(a, b) ==
    IF a.cls = "nan" \/ b.cls = "nan" THEN NaN
    ELSE IF a.cls = "inf" THEN (IF b.cls = "inf" THEN NaN
                                ELSE Inf(a.k * (IF b.k < 0 THEN -1 ELSE 1)))
    ELSE IF b.cls = "inf" THEN Fin(0)
    ELSE IF b.k = 0 THEN (IF a.k = 0 THEN NaN ELSE Inf(a.k))
    ELSE RoundRat(Sgn(b.k) * a.k * 2^FRAC, Abs(b.k))

RECURSIVE ISqrtBetween(_, _, _)
\* The integer square root of n, searched in lo..hi (lo^2 <= n < (hi+1)^2).
ISqrtBetween(n, lo, hi) ==
    IF lo = hi THEN lo
    ELSE LET m == (lo + hi + 1) \div 2
         IN  IF m * m <= n THEN ISqrtBetween(n, m, hi)
             ELSE ISqrtBetween(n, lo, m - 1)

ISqrt(n) == ISqrtBetween(n, 0, 2^15)

\* math.Sqrt, correctly rounded.
FSqrt(a) ==
    IF a.cls = "nan" THEN NaN
    ELSE IF a.k < 0 THEN NaN
    ELSE IF a.cls = "inf" THEN PosInf
    ELSE LET n == a.k * 2^FRAC
             s == ISqrt(n)
             step == 2^ExpOf(s)
             lower == (s \div step) * step
             upper == lower + step
             mid2 == (lower + upper) * (lower + upper)
         IN  IF 4 * n < mid2 THEN Fin(lower)
             ELSE IF 4 * n > mid2 THEN Fin(upper)
             ELSE IF (lower \div step) % 2 = 0 THEN Fin(lower) ELSE Fin(upper)

\* a < b on float64: false when either is NaN.
FLess(a, b) ==
    /\ a.cls # "nan"
    /\ b.cls # "nan"
    /\ IF a.cls = "inf" THEN a.k < 0 /\ b # a
       ELSE IF b.cls = "inf" THEN b.k > 0
       ELSE a.k < b.k

\* fmt's %.1f: the tenths nearest to the value, ties to even; NaN and the
\* infinities print as words.
FormatF1(a) ==
    IF a.cls = "nan" THEN [txt |-> "NaN", tenths |-> 0]
    ELSE IF a.cls = "inf" THEN [txt |-> IF a.k > 0 THEN "+Inf" ELSE "-Inf", tenths |-> 0]
    ELSE LET num == 10 * Abs(a.k)
             den == 2^FRAC
             q == num \div den
             r == IF 2 * num < (2 * q + 1) * den THEN q
                  ELSE IF 2 * num > (2 * q + 1) * den THEN q + 1
                  ELSE IF q % 2 = 0 THEN q ELSE q + 1
         IN  [txt |-> "num", tenths |-> Sgn(a.k) * r]

(***************************************************************************)
(* int64: IntBits bits in two's complement, held as limbs of 16 bits,      *)
(* least significant first.                                                *)
(***************************************************************************)
\* The width of readBytes and writeBytes (loader.go:25, int64).
IntBits == 64

LimbBase == 2^16

Limbs == IntBits \div 16

\* The limbs of a small natural number n < 2^31, in `len` limbs.
Wide(n, len) ==
    [i \in 1..len |-> IF i = 1 THEN n % LimbBase
                      ELSE IF i = 2 THEN (n \div LimbBase) % LimbBase ELSE 0]

I64(n) == Wide(n, Limbs)

\* 2^62 and 2^63 - 1 (math.MaxInt64).
Two62 == [i \in 1..Limbs |-> IF i = Limbs THEN 2^14 ELSE 0]

MaxInt64 == [i \in 1..Limbs |-> IF i = Limbs THEN 2^15 - 1 ELSE LimbBase - 1]

RECURSIVE CarryInto(_, _, _, _)
\* The carry into limb i of a + b + c0.
CarryInto(a, b, c0, i) ==
    IF i = 1 THEN c0
    ELSE (a[i - 1] + b[i - 1] + CarryInto(a, b, c0, i - 1)) \div LimbBase

\* a + b + c0 modulo LimbBase^Len(a): the carry out of the top limb is lost.
AddLimbs(a, b, c0) ==
    [i \in 1..Len(a) |-> (a[i] + b[i] + CarryInto(a, b, c0, i)) % LimbBase]

\* Go's + on int64: wraps around on overflow.
AddInt64(a, b) == AddLimbs(a, b, 0)

IsNegInt64(a) == a[Len(a)] >= LimbBase \div 2

\* Go's unary - on int64 (two's complement: -MinInt64 = MinInt64).
NegInt64(a) ==
    AddLimbs([i \in 1..Len(a) |-> LimbBase - 1 - a[i]], [i \in 1..Len(a) |-> 0], 1)

RECURSIVE RemAbove(_, _, _)
\* The remainder, modulo c, of the limbs of a above limb i - 1.
RemAbove(a, c, i) ==
    IF i > Len(a) THEN 0 ELSE (RemAbove(a, c, i + 1) * LimbBase + a[i]) % c

\* The unsigned quotient of the limbs a by a small c > 0 (long division).
DivLimbs(a, c) ==
    [i \in 1..Len(a) |-> (RemAbove(a, c, i + 1) * LimbBase + a[i]) \div c]

\* Go's / on int64 by a positive divisor: the quotient truncated toward zero.
DivInt64(a, c) ==
    IF IsNegInt64(a) THEN NegInt64(DivLimbs(NegInt64(a), c)) ELSE DivLimbs(a, c)

RECURSIVE LessLimbsFrom(_, _, _)
\* a < b as unsigned numbers, comparing from limb i downward.
LessLimbsFrom(a, b, i) ==
    IF i = 0 THEN FALSE
    ELSE IF a[i] # b[i] THEN a[i] < b[i]
    ELSE LessLimbsFrom(a, b, i - 1)

LessLimbs(a, b) == LessLimbsFrom(a, b, Len(a))

\* a < b on int64 (signed).
LessInt64(a, b) ==
    IF IsNegInt64(a) # IsNegInt64(b) THEN IsNegInt64(a) ELSE LessLimbs(a, b)

(***************************************************************************)
(* The state.                                                              *)
(*   fused   whether the build fuses x*y + z into one rounding (the Go     *)
(*           specification allows it; the compiler does it on some         *)
(*           architectures), fixed for a run                               *)
(*   data    loader.data: workload name -> day -> the runs of that day     *)
(*   stderr  the diagnostics written so far                                *)
(*   walked  the files filepath.Walk has visited so far, in order          *)
(*   pc      where main is: "walk" (walking the tree), "walkpanic" (the    *)
(*           walk function panicked), "cookpanic" (a cookDay panicked),    *)
(*           "done" (data.js written) or "exit" (the write failed)         *)
(*   out     what cook produced: workload name -> the lines of its blob    *)
(*   runs    the group of runs handed to cookDay                           *)
(*   line    what cookDay returned for runs (empty before the call)        *)
(***************************************************************************)
VARIABLES fused, data, stderr, walked, pc, out, runs, line

vars == <<fused, data, stderr, walked, pc, out, runs, line>>

(***************************************************************************)
(* cookDay (loader.go:103-141).                                            *)
(***************************************************************************)
RECURSIVE sum(_, _)
\* loader.go:104-107: the opsSec of runs[1..i], added in order.
sum(rs, i) == IF i = 0 THEN Fin(0) ELSE FAdd(sum(rs, i - 1), rs[i].opsSec)

\* loader.go:108
mean(rs) == FDiv(sum(rs, Len(rs)), FromInt(Len(rs)))

\* sum2 += v * v (loader.go:113), in one rounding when the build fuses it.
MulAdd(acc, v) ==
    IF fused /\ acc.cls = "fin" /\ v.cls = "fin"
    THEN RoundRat(v.k * v.k + acc.k * 2^FRAC, 2^FRAC)
    ELSE FAdd(acc, FMul(v, v))

RECURSIVE sum2(_, _)
\* loader.go:110-114
sum2(rs, i) ==
    IF i = 0 THEN Fin(0)
    ELSE MulAdd(sum2(rs, i - 1), FSub(rs[i].opsSec, mean(rs)))

\* loader.go:116
stddev(rs) == FSqrt(FDiv(sum2(rs, Len(rs)), FromInt(Len(rs))))

\* loader.go:117
lo(rs) == FSub(mean(rs), stddev(rs))

\* loader.go:118
hi(rs) == FAdd(mean(rs), stddev(rs))

\* loader.go:124: the run is skipped when opsSec < lo || opsSec > hi.
skipped(r, l, h) == FLess(r.opsSec, l) \/ FLess(h, r.opsSec)

\* The runs the loop of loader.go:122-133 adds to avg, in order.
kept(rs) ==
    LET l == lo(rs)
        h == hi(rs)
    IN  SelectSeq(rs, LAMBDA r : ~skipped(r, l, h))

RECURSIVE addFloat(_, _, _)
\* avg.<field> += r.<field> over ks[1..i] for a float64 field (loader.go:128-132).
addFloat(ks, fld, i) ==
    IF i = 0 THEN Fin(0) ELSE FAdd(addFloat(ks, fld, i - 1), ks[i][fld])

RECURSIVE addInt64(_, _, _)
\* avg.<field> += r.<field> over ks[1..i] for an int64 field (loader.go:129-130).
addInt64(ks, fld, i) ==
    IF i = 0 THEN I64(0) ELSE AddInt64(addInt64(ks, fld, i - 1), ks[i][fld])

\* What a call that panics leaves: no line.
Panicked ==
    [panic |-> TRUE, opsSec |-> FormatF1(NaN), readBytes |-> I64(0),
     writeBytes |-> I64(0), readAmp |-> FormatF1(NaN), writeAmp |-> FormatF1(NaN)]

\* loader.go:135-140 for the sums over the kept runs ks.  With count = 0
\* the int64 division of loader.go:137 panics (integer divide by zero).
average(ks, count) ==
    IF count = 0 THEN Panicked
    ELSE [panic |-> FALSE,
          opsSec |-> FormatF1(FDiv(addFloat(ks, "opsSec", count), FromInt(count))),
          readBytes |-> DivInt64(addInt64(ks, "readBytes", count), count),
          writeBytes |-> DivInt64(addInt64(ks, "writeBytes", count), count),
          readAmp |-> FormatF1(FDiv(addFloat(ks, "readAmp", count), FromInt(count))),
          writeAmp |-> FormatF1(FDiv(addFloat(ks, "writeAmp", count), FromInt(count)))]

averageOf(ks) == average(ks, Len(ks))

\* loader.go:103-141
cookDay(rs) == averageOf(kept(rs))

(***************************************************************************)
(* The specification of cookDay alone: a group of runs is built one run at *)
(* a time from RunInputs and cookDay is applied to it.                     *)
(***************************************************************************)
\* The longest group of runs.
MaxRuns == 3

\* opsSec values, in units of 2^(-FRAC): two subnormals, values around 1.0
\* and the largest finite value.
OpsVals == {1, 3, 6, 16, 32, MaxFinite}

\* readBytes, writeBytes and readAmp of a run; the last has byte counts
\* whose sums pass 2^63.
Measures == {<<I64(3), I64(5), 16>>, <<I64(8), I64(5), 24>>, <<Two62, MaxInt64, 16>>}

RunInputs ==
    {[opsSec |-> Fin(o), readBytes |-> b[1], writeBytes |-> b[2],
      readAmp |-> Fin(b[3]), writeAmp |-> Fin(2 * b[3])] :
        o \in OpsVals, b \in Measures}

InitDay ==
    /\ fused \in BOOLEAN
    /\ runs = << >>
    /\ line = << >>
    /\ data = << >>
    /\ stderr = << >>
    /\ walked = << >>
    /\ pc = "day"
    /\ out = << >>

AppendRun ==
    /\ line = << >>
    /\ Len(runs) < MaxRuns
    /\ \E r \in RunInputs : runs' = Append(runs, r)
    /\ UNCHANGED <<fused, data, stderr, walked, pc, out, line>>

\* cookDay is only called on a day of the store, which holds a run or more
\* (loader.go:77 creates a day by appending to it).
CallCookDay ==
    /\ line = << >>
    /\ Len(runs) > 0
    /\ line' = <<cookDay(runs)>>
    /\ UNCHANGED <<fused, data, stderr, walked, pc, out, runs>>

NextDay == AppendRun \/ CallCookDay

SpecDay == InitDay /\ [][NextDay]_vars

(***************************************************************************)
(* Text.  A string is a sequence of byte values; a line of a log is the    *)
(* sequence of its blank-separated tokens.  A token is the word that       *)
(* starts with "Benchmark" (s is what follows the marker), another word,   *)
(* an integer literal or a literal with a fraction.                        *)
(***************************************************************************)
\* os.PathSeparator, '/'.
Sep == 47

RECURSIVE SplitFrom(_, _, _, _)
SplitFrom(str, i, cur, acc) ==
    IF i > Len(str) THEN Append(acc, cur)
    ELSE IF str[i] = Sep THEN SplitFrom(str, i + 1, << >>, Append(acc, cur))
    ELSE SplitFrom(str, i + 1, Append(cur, str[i]), acc)

\* strings.Split(path, string(os.PathSeparator)) (loader.go:40).
Split(str) == SplitFrom(str, 1, << >>, << >>)

RECURSIVE StrLessFrom(_, _, _)
StrLessFrom(a, b, i) ==
    IF i > Len(b) THEN FALSE
    ELSE IF i > Len(a) THEN TRUE
    ELSE IF a[i] # b[i] THEN a[i] < b[i]
    ELSE StrLessFrom(a, b, i + 1)

\* a < b on Go strings: byte-wise lexicographic.
StrLess(a, b) == StrLessFrom(a, b, 1)

RECURSIVE insertSorted(_, _)
insertSorted(sorted, str) ==
    IF sorted = << >> THEN <<str>>
    ELSE IF StrLess(str, Head(sorted)) THEN <<str>> \o sorted
    ELSE <<Head(sorted)>> \o insertSorted(Tail(sorted), str)

RECURSIVE sortStrings(_)
\* sort.Strings (loader.go:94).
sortStrings(strs) ==
    IF strs = << >> THEN << >>
    ELSE insertSorted(sortStrings(Tail(strs)), Head(strs))

Bench(name) == [t |-> "bench", s |-> name, i |-> I64(0), f |-> Fin(0)]

Word(w) == [t |-> "word", s |-> w, i |-> I64(0), f |-> Fin(0)]

\* An integer literal: %d reads i, %f reads the same digits as f.
IntTok(n) == [t |-> "int", s |-> "digits", i |-> I64(n), f |-> FromInt(n)]

\* A literal with a fraction, of value k * 2^(-FRAC).
FloatTok(k) == [t |-> "float", s |-> "digits.digits", i |-> I64(0), f |-> Fin(k)]

\* strings.HasPrefix(line, "Benchmark") (loader.go:57).
HasPrefix(ln) == ln # << >> /\ ln[1].t = "bench"

\* The verbs and literals of the format of loader.go:65 after "Benchmark".
Format ==
    <<"%s", "%d", "%f", "ops/sec", "%d", "read", "%d", "write",
      "%f", "r-amp", "%f", "w-amp">>

RECURSIVE scan(_, _, _, _, _)
\* fmt.Sscanf from format item fi and token ti on, with n verbs stored in
\* vals so far: the number of verbs stored, whether an error is returned
\* and the tokens stored.  Input beyond the format is ignored.
scan(toks, fi, ti, n, vals) ==
    IF fi > Len(Format) THEN [n |-> n, err |-> FALSE, vals |-> vals]
    ELSE IF ti > Len(toks) THEN [n |-> n, err |-> TRUE, vals |-> vals]
    ELSE
        LET tok == toks[ti]
            stop == [n |-> n, err |-> TRUE, vals |-> vals]
            store == scan(toks, fi + 1, ti + 1, n + 1, Append(vals, tok))
        IN  CASE Format[fi] = "%s" -> store
              [] Format[fi] = "%d" ->
                    IF tok.t = "int" THEN store
                    \* the digits before the point are stored; the format's
                    \* blank then meets the point
                    ELSE IF tok.t = "float"
                         THEN [n |-> n + 1, err |-> TRUE, vals |-> Append(vals, tok)]
                    ELSE stop
              [] Format[fi] = "%f" ->
                    IF tok.t \in {"int", "float"} THEN store ELSE stop
              [] OTHER ->
                    IF tok.t = "word" /\ tok.s = Format[fi]
                    THEN scan(toks, fi + 1, ti + 1, n, vals)
                    ELSE stop

\* fmt.Sscanf(line, "Benchmark%s %d %f ops/sec ...") (loader.go:64-66) on a
\* line that has the prefix: %s takes what follows the marker or, when
\* nothing does, skips the blank and takes the next token.
Sscanf(ln) == scan(IF ln[1].s = "" THEN Tail(ln) ELSE ln, 1, 1, 0, << >>)

\* The run a complete scan stored (loader.go:66).
runOf(vals) ==
    [opsSec |-> vals[3].f, readBytes |-> vals[4].i, writeBytes |-> vals[5].i,
     readAmp |-> vals[6].f, writeAmp |-> vals[7].f]

(***************************************************************************)
(* load (loader.go:39-79).  st is [data, stderr].                          *)
(***************************************************************************)
Put(fn, key, val) == [x \in DOMAIN fn \cup {key} |-> IF x = key THEN val ELSE fn[x]]

\* record with the day's runs replaced by the new run instead of appended to.
recordOverwrites(d, name, day, r) ==
    LET w == IF name \in DOMAIN d THEN d[name] ELSE << >>
    IN  Put(d, name, Put(w, day, <<r>>))

\* loader.go:72-77: the workload and the day are created on first use and
\* the run is appended.
record(d, name, day, r) ==
    LET w == IF name \in DOMAIN d THEN d[name] ELSE << >>
        rs == IF day \in DOMAIN w THEN w[day] ELSE << >>
    IN  Put(d, name, Put(w, day, Append(rs, r)))

Diag(what, path, text) == [what |-> what, path |-> path, text |-> text]

\* The fields of a scan that stopped early, the rest zero.
partialRun(vals) ==
    [opsSec |-> IF Len(vals) >= 3 THEN vals[3].f ELSE Fin(0),
     readBytes |-> IF Len(vals) >= 4 THEN vals[4].i ELSE I64(0),
     writeBytes |-> IF Len(vals) >= 5 THEN vals[5].i ELSE I64(0),
     readAmp |-> IF Len(vals) >= 6 THEN vals[6].f ELSE Fin(0),
     writeAmp |-> IF Len(vals) >= 7 THEN vals[7].f ELSE Fin(0)]

\* loadLine without the continue of loader.go:69: a line that fails to scan
\* is diagnosed and what was scanned of it is recorded all the same.
loadLineFallsThrough(st, day, ln) ==
    IF ~HasPrefix(ln) THEN st
    ELSE [data |-> record(st.data,
                          IF Sscanf(ln).n >= 1 THEN Sscanf(ln).vals[1].s ELSE "",
                          day, partialRun(Sscanf(ln).vals)),
          stderr |-> IF Sscanf(ln).err \/ Sscanf(ln).n # 7
                     THEN Append(st.stderr, Diag("parse", << >>, ln))
                     ELSE st.stderr,
          pc |-> st.pc]

\* One iteration of the loop of loader.go:55-78.  The diagnostic of a line
\* that does not scan holds the line (and the error), not the path.
loadLine(st, day, ln) ==
    IF ~HasPrefix(ln) THEN st
    ELSE LET sc == Sscanf(ln)
         IN  IF sc.err \/ sc.n # 7
             THEN [st EXCEPT !.stderr = Append(@, Diag("parse", << >>, ln))]
             ELSE [st EXCEPT !.data = record(@, sc.vals[1].s, day, runOf(sc.vals))]

RECURSIVE scanLoop(_, _, _, _)
\* The loop of loader.go:55-78 over the lines the Scanner returns: lns[i..last].
scanLoop(st, day, lns, i) ==
    IF i > Len(lns) THEN st
    ELSE scanLoop(loadLine(st, day, lns[i]), day, lns, i + 1)

\* The lines s.Scan() returns: all of an intact file; of a file whose
\* bzip2 stream is corrupt, those before the corruption (Scan then returns
\* false and s.Err() is not looked at).
scanned(file) == SubSeq(file.lines, 1, file.good)

\* loader.go:39-79
load(st, file) ==
    LET parts == Split(file.path)
    IN  IF Len(parts) < 2 THEN st
        ELSE IF ~file.canOpen
             THEN [st EXCEPT !.stderr = Append(@, Diag("open", file.path, << >>))]
        ELSE scanLoop(st, parts[2], scanned(file), 1)

(***************************************************************************)
(* cookWorkload and cook (loader.go:81-101).  A blob is the sequence of    *)
(* its lines; a line "day,aggregate\n" is the pair of its day and its      *)
(* aggregate.                                                              *)
(***************************************************************************)
RECURSIVE cookLines(_, _, _)
\* loader.go:97-99
cookLines(w, days, i) ==
    IF i > Len(days) THEN << >>
    ELSE <<[day |-> days[i], agg |-> cookDay(w[days[i]])]>> \o cookLines(w, days, i + 1)

\* loader.go:89-101; keys lists w.days in the order the range of
\* loader.go:91 yields them.
cookWorkload(w, keys) == cookLines(w, sortStrings(keys), 1)

\* The keys of w in the order of ranking, a sequence that holds them all.
InOrder(w, ranking) == SelectSeq(ranking, LAMBDA d : d \in DOMAIN w)

\* loader.go:81-87
cook(d, ranking) == [name \in DOMAIN d |-> cookWorkload(d[name], InOrder(d[name], ranking))]

\* A cookDay of the cooking panicked: no mapping is returned.
cookPanics(m) == \E name \in DOMAIN m : \E i \in 1..Len(m[name]) : m[name][i].agg.panic

(***************************************************************************)
(* main (loader.go:152-168).  st is [data, stderr, pc].                    *)
(***************************************************************************)
\* The function main hands to filepath.Walk (loader.go:155-160).  When the
\* lstat of the entry failed, Walk passes a nil info and info.Mode() panics
\* (nil pointer dereference).
walkFn(st, file) ==
    IF ~file.stat THEN [st EXCEPT !.pc = "walkpanic"]
    ELSE IF file.regular THEN load(st, file)
    ELSE st

\* The permutations of a finite set, as sequences.
Perms(S) ==
    {p \in [1..Cardinality(S) -> S] : \A i, j \in DOMAIN p : i # j => p[i] # p[j]}

AllDays(d) == UNION {DOMAIN d[name] : name \in DOMAIN d}

(***************************************************************************)
(* The files of the tree under "data".                                     *)
(***************************************************************************)
\* The most files one walk visits.
MaxFiles == 2

\* "data", "2", "10", "s", "f"
StrData == <<100, 97, 116, 97>>

Str2 == <<50>>

Str10 == <<49, 48>>

StrS == <<115>>

StrF == <<102>>

RECURSIVE Join(_)
\* filepath.Join of the segments.
Join(segs) ==
    IF Len(segs) = 1 THEN segs[1] ELSE segs[1] \o <<Sep>> \o Join(Tail(segs))

Measured(ops, rb) ==
    <<FloatTok(ops), Word("ops/sec"), IntTok(rb), Word("read"), IntTok(7),
      Word("write"), FloatTok(16), Word("r-amp"), FloatTok(32), Word("w-amp")>>

\* "Benchmark<name> 5 <ops> ops/sec <rb> read 7 write 1.0 r-amp 2.0 w-amp"
Valid(name, ops, rb) == <<Bench(name), IntTok(5)>> \o Measured(ops, rb)

\* "BenchmarkFoo not-a-number ops/sec ..."
BadWord == <<Bench("Foo"), Word("not-a-number")>> \o Tail(Measured(16, 3))

\* "BenchmarkA 5 1.0 ops/sec": the line ends early.
Short == <<Bench("A"), IntTok(5), FloatTok(16), Word("ops/sec")>>

\* "BenchmarkA 1.5 1.0 ops/sec ...": the iteration count has a fraction.
FloatIter == <<Bench("A"), FloatTok(24)>> \o Measured(16, 3)

\* "PASS"
Plain == <<Word("PASS")>>

\* "Benchmark A 5 1.0 ops/sec ...": a blank after the marker.
Spaced == <<Bench(""), Word("A"), IntTok(5)>> \o Measured(16, 3)

\* A valid line of B followed by more text.
Trailing == Valid("B", 32, 8) \o <<Word("extra")>>

\* A valid line of A without its last word, "w-amp": seven fields are
\* stored and an error is returned.
NoTail == SubSeq(Valid("A", 6, 3), 1, 11)

Contents ==
    <<(*1*) <<Valid("A", 16, 3), Valid("B", 32, 8)>>,
      (*2*) <<BadWord, Valid("A", 3, 3)>>,
      (*3*) <<Plain, Valid("A", 1, 3), Short>>,
      (*4*) <<FloatIter, Valid("B", 32, 8), Valid("B", 32, 8)>>,
      (*5*) <<Spaced, Trailing, NoTail>>,
      (*6*) << >> >>

\* An intact regular file.
File(segs, c) ==
    [path |-> Join(segs), stat |-> TRUE, regular |-> TRUE, canOpen |-> TRUE,
     lines |-> Contents[c], good |-> Len(Contents[c]), corrupt |-> FALSE]

\* A file whose bzip2 stream is corrupt after its first g lines.
Corrupt(segs, c, g) == [File(segs, c) EXCEPT !.good = g, !.corrupt = TRUE]

Files ==
    {File(<<StrData, Str2, StrF>>, c) : c \in 1..5}
    \cup {File(<<StrData, Str10, StrF>>, c) : c \in 1..2}
    \cup {File(<<StrData, Str2, StrS, StrF>>, 4),
          File(<<StrData, StrF>>, 1),
          \* "data" itself a regular file
          File(<<StrData>>, 1),
          \* the directory data/2
          [File(<<StrData, Str2>>, 6) EXCEPT !.regular = FALSE],
          \* an entry whose lstat fails
          [File(<<StrData, Str2, StrF>>, 6) EXCEPT !.stat = FALSE],
          \* a file that cannot be opened
          [File(<<StrData, Str2, StrF>>, 1) EXCEPT !.canOpen = FALSE],
          Corrupt(<<StrData, Str2, StrF>>, 1, 1),
          Corrupt(<<StrData, Str2, StrS, StrF>>, 3, 3)}

(***************************************************************************)
(* The specification of the program: main walks the tree, loading each     *)
(* regular file, then cooks the store and writes data.js.  The order of    *)
(* the walk is left open, which also covers other callers of load.         *)
(***************************************************************************)
Init ==
    /\ fused \in BOOLEAN
    /\ data = << >>
    /\ stderr = << >>
    /\ walked = << >>
    /\ pc = "walk"
    /\ out = << >>
    /\ runs = << >>
    /\ line = << >>

\* filepath.Walk calls the function of loader.go:155-160 on the next entry.
Visit(file) ==
    /\ pc = "walk"
    /\ Len(walked) < MaxFiles
    /\ walked' = Append(walked, file)
    /\ LET st == walkFn([data |-> data, stderr |-> stderr, pc |-> pc], file)
       IN  /\ data' = st.data
           /\ stderr' = st.stderr
           /\ pc' = st.pc
    /\ UNCHANGED <<fused, out, runs, line>>

\* loader.go:162-167: the store is cooked and data.js is written.  The
\* ranges over the maps yield their keys in any order.  out is what the
\* calls of cookDay produced; when one of them panicked the program ends
\* there ("cookpanic") and no mapping is returned; a failed write exits
\* with status 1 ("exit").
Finish ==
    /\ pc = "walk"
    /\ \E ranking \in Perms(AllDays(data)) : out' = cook(data, ranking)
    /\ \E written \in BOOLEAN :
          pc' = IF cookPanics(out') THEN "cookpanic"
                ELSE IF written THEN "done" ELSE "exit"
    /\ UNCHANGED <<fused, data, stderr, walked, runs, line>>

Next == (\E file \in Files : Visit(file)) \/ Finish

Spec == Init /\ [][Next]_vars

(***************************************************************************)
(* Claims about cookDay, checked under SpecDay.                            *)
(***************************************************************************)
Called == line # << >>

\* C1: for every non-empty group of runs passed to cookDay, the number of
\* runs the band keeps (count) is at least 1, so the divisions by count of
\* loader.go:136-140 never divide by zero.
C1_CountAtLeastOne == Called => Len(kept(runs)) >= 1 /\ ~line[1].panic

RECURSIVE ExactSum(_, _)
\* The exact (unrounded) sum of the opsSec of rs[1..i], in units of 2^(-FRAC).
ExactSum(rs, i) == IF i = 0 THEN 0 ELSE ExactSum(rs, i - 1) + rs[i].opsSec.k

\* n * opsSec - sum: n times the exact deviation of rs[i] from the exact mean.
ExactDev(rs, i) == Len(rs) * rs[i].opsSec.k - ExactSum(rs, Len(rs))

RECURSIVE ExactDevSq(_, _)
ExactDevSq(rs, i) ==
    IF i = 0 THEN 0 ELSE ExactDevSq(rs, i - 1) + ExactDev(rs, i) * ExactDev(rs, i)

\* rs[i] lies within one population standard deviation of the arithmetic
\* mean: (x - mean)^2 <= (1/n) * SUM (x_j - mean)^2, multiplied out by n^3.
ExactInBand(rs, i) ==
    Len(rs) * ExactDev(rs, i) * ExactDev(rs, i) <= ExactDevSq(rs, Len(rs))

C3_TwoRunsBothKept ==
    (Called /\ Len(runs) = 2) =>
        /\ kept(runs) = runs
        /\ ~line[1].panic
        /\ line[1].opsSec = FormatF1(mean(runs))

SameOpsSec(rs) == \A i \in 1..Len(rs) : rs[i].opsSec = rs[1].opsSec

\* C4: for a group whose runs all have the same opsSec (every single-run
\* group included) stddev is 0, every run is kept, the emitted opsSec is the
\* common value and every other field is averaged over the whole group; a
\* single-run group yields that run's five fields.
C4_EqualOpsSecAllKept ==
    (Called /\ SameOpsSec(runs)) =>
        /\ stddev(runs) = Fin(0)
        /\ kept(runs) = runs
        /\ line[1] = averageOf(runs)
        /\ line[1].opsSec = FormatF1(runs[1].opsSec)
        /\ Len(runs) = 1 =>
              /\ line[1].readBytes = runs[1].readBytes
              /\ line[1].writeBytes = runs[1].writeBytes
              /\ line[1].readAmp = FormatF1(runs[1].readAmp)
              /\ line[1].writeAmp = FormatF1(runs[1].writeAmp)

RECURSIVE TrueSum(_, _, _)
\* The sum of an int64 field over ks[1..i] without wrap-around, in one limb
\* more than an int64 has (the values are non-negative).
TrueSum(ks, fld, i) ==
    IF i = 0 THEN Wide(0, Limbs + 1)
    ELSE AddLimbs(TrueSum(ks, fld, i - 1), Append(ks[i][fld], 0), 0)

\* The emitted value e is the truncated quotient of the true sum of the kept
\* runs' field by their number, and lies between their least and greatest.
TruncatedMean(e, ks, fld) ==
    /\ Append(e, 0) = DivLimbs(TrueSum(ks, fld, Len(ks)), Len(ks))
    /\ \E i \in 1..Len(ks) : ~LessInt64(e, ks[i][fld])
    /\ \E i \in 1..Len(ks) : ~LessInt64(ks[i][fld], e)

NonNegativeBytes(rs) ==
    \A i \in 1..Len(rs) : ~IsNegInt64(rs[i].readBytes) /\ ~IsNegInt64(rs[i].writeBytes)

\* C10: for every non-empty group of runs with non-negative readBytes and
\* writeBytes, the readBytes and writeBytes cookDay emits are the truncated
\* quotient of the true sum of the kept runs' values by count, and so lie
\* between the least and the greatest of the kept runs' values.
C10_BytesTruncatedMean ==
    (Called /\ ~line[1].panic /\ NonNegativeBytes(runs)) =>
        /\ TruncatedMean(line[1].readBytes, kept(runs), "readBytes")
        /\ TruncatedMean(line[1].writeBytes, kept(runs), "writeBytes")

(***************************************************************************)
(* Claims about load, cookWorkload, cook and main, checked under Spec.     *)
(***************************************************************************)
\* The line scans completely: load records its run.
ParsedOK(ln) == HasPrefix(ln) /\ ~Sscanf(ln).err /\ Sscanf(ln).n = 7

\* The workload a line that scans completely names.
nameOf(ln) == Sscanf(ln).vals[1].s

RECURSIVE RunsNamed(_, _)
\* The runs of the lines of lns that scan completely and name w, in order.
RunsNamed(lns, w) ==
    IF lns = << >> THEN << >>
    ELSE (IF ParsedOK(Head(lns)) /\ nameOf(Head(lns)) = w
          THEN <<runOf(Sscanf(Head(lns)).vals)>> ELSE << >>)
         \o RunsNamed(Tail(lns), w)

\* The runs of workload w that the visit of file puts into day d: those of
\* the lines read from a regular file whose second path segment is d.
Contribution(file, w, d) ==
    IF /\ file.stat /\ file.regular /\ file.canOpen
       /\ Len(Split(file.path)) >= 2
       /\ Split(file.path)[2] = d
    THEN RunsNamed(scanned(file), w)
    ELSE << >>

RECURSIVE Expected(_, _, _)
\* The runs of workload w and day d in the files fs, in the order visited.
Expected(fs, w, d) ==
    IF fs = << >> THEN << >>
    ELSE Expected(SubSeq(fs, 1, Len(fs) - 1), w, d) \o Contribution(fs[Len(fs)], w, d)

\* What %s takes in the marked lines of Files: the workload names, and
\* the names of the lines that fail to scan.
Names ==
    UNION {{Sscanf(file.lines[i]).vals[1].s :
               i \in {j \in 1..Len(file.lines) :
                         HasPrefix(file.lines[j]) /\ Sscanf(file.lines[j]).n >= 1}} :
           file \in Files}

\* The second path segments of Files.
Days == {Split(file.path)[2] : file \in {g \in Files : Len(Split(g.path)) >= 2}}

Present(w, d) == w \in DOMAIN data /\ d \in DOMAIN data[w]

\* cook was called.
Cooked == pc \in {"done", "exit", "cookpanic"}

\* C5: for any workload and any order in which its days were put into the
\* store, cookWorkload emits exactly one line per day key, each the day,
\* a comma and the day's aggregate, with the days in strictly ascending
\* byte-wise order.
C5_OneLinePerDaySorted ==
    Cooked =>
        \A name \in DOMAIN data :
            /\ Len(out[name]) = Cardinality(DOMAIN data[name])
            /\ \A i \in 1..Len(out[name]) :
                  /\ out[name][i].day \in DOMAIN data[name]
                  /\ out[name][i].agg = cookDay(data[name][out[name][i].day])
                  /\ ~out[name][i].agg.panic
                  /\ \A j \in 1..Len(out[name]) :
                        i < j => StrLess(out[name][i].day, out[name][j].day)

\* C6: after any sequence of loads, cook returns a mapping whose keys are
\* exactly the workload names of which a line scanned completely, and the
\* blob of each has as many lines as the workload has distinct days.
C6_CookKeysAndLineCounts ==
    Cooked =>
        /\ pc # "cookpanic"
        /\ DOMAIN out = {w \in Names : \E d \in Days : Expected(walked, w, d) # << >>}
        /\ \A w \in DOMAIN out :
              Len(out[w]) = Cardinality({d \in Days : Expected(walked, w, d) # << >>})

\* A line the loop of load passes over: one that does not start with
\* "Benchmark", or one that does and fails to match all seven fields.
Ignored(ln) == ~HasPrefix(ln) \/ Sscanf(ln).n # 7

\* The file with only the lines load reads and does not pass over.
Clean(file) ==
    [file EXCEPT !.lines = SelectSeq(scanned(file), LAMBDA ln : ~Ignored(ln)),
                 !.good = Len(SelectSeq(scanned(file), LAMBDA ln : ~Ignored(ln)))]

RECURSIVE Replay(_, _)
\* The state after main has walked the files fs[1..i].
Replay(fs, i) ==
    IF i = 0 THEN [data |-> << >>, stderr |-> << >>, pc |-> "walk"]
    ELSE walkFn(Replay(fs, i - 1), fs[i])

\* C7: a line that starts with "Benchmark" and fails to match all seven
\* fields leaves the store unchanged and does not abort the run, and the
\* lines after it are still processed; so does a line without the marker.
\* The store is the one the same files without those lines would give.
C7_MalformedLinesSkipped ==
    /\ data = Replay([i \in 1..Len(walked) |-> Clean(walked[i])], Len(walked)).data
    /\ \A file \in Files : \A i \in 1..Len(file.lines) :
          Ignored(file.lines[i]) =>
              loadLine([data |-> data, stderr |-> stderr, pc |-> pc], Str2,
                       file.lines[i]).data = data
    /\ pc = "walkpanic" => ~walked[Len(walked)].stat

\* A file with a malformed marked line before a valid one has been loaded,
\* and the valid line's workload is in the store.
C7_Witness ==
    /\ pc = "walk"
    /\ \E k \in 1..Len(walked) :
          /\ walked[k].stat /\ walked[k].regular /\ walked[k].canOpen
          /\ \E i, j \in 1..walked[k].good :
                /\ i < j
                /\ HasPrefix(walked[k].lines[i])
                /\ Sscanf(walked[k].lines[i]).n # 7
                /\ ParsedOK(walked[k].lines[j])
                /\ nameOf(walked[k].lines[j]) \in DOMAIN data

\* The file cannot be read: its lstat or its open fails, or its compressed
\* stream is corrupt.
Unreadable(file) == ~file.stat \/ ~file.canOpen \/ file.corrupt

\* C8: an unreadable input file is recovered: a diagnostic about it is
\* printed, it contributes no runs to the store, and the run continues.
C8_UnreadableFileSkipped ==
    \A k \in 1..Len(walked) :
        Unreadable(walked[k]) =>
            /\ pc # "walkpanic"
            /\ \E i \in 1..Len(stderr) :
                  stderr[i].what = "open" /\ stderr[i].path = walked[k].path
            /\ data = Replay(SelectSeq(walked, LAMBDA f : ~Unreadable(f)),
                             Len(SelectSeq(walked, LAMBDA f : ~Unreadable(f)))).data

\* C9: after any sequence of loads, days[d] of workload w holds exactly the
\* runs of the lines naming w that scanned completely in the files whose
\* second path segment is d, one per line and in the order read; so no
\* workload is without days and no day is empty.
C9_StoreHoldsParsedRuns ==
    /\ \A w \in Names \cup DOMAIN data :
          \A d \in Days \cup (IF w \in DOMAIN data THEN DOMAIN data[w] ELSE {}) :
              /\ Present(w, d) <=> Expected(walked, w, d) # << >>
              /\ Present(w, d) => data[w][d] = Expected(walked, w, d)
    /\ \A w \in DOMAIN data : DOMAIN data[w] # {}

\* A day holds three runs or more, two of them equal, some of them from a
\* file deeper in the tree.
C9_Witness ==
    \E w \in DOMAIN data : \E d \in DOMAIN data[w] :
        /\ Len(data[w][d]) >= 3
        /\ \E i, j \in 1..Len(data[w][d]) : i # j /\ data[w][d][i] = data[w][d][j]
        /\ \E k \in 1..Len(walked) :
              /\ Len(Split(walked[k].path)) > 3
              /\ Contribution(walked[k], w, d) # << >>

====
